---- MODULE Spec2Model ----
(***************************************************************************)
(* Model of the forkable queue (src/src/multiqueue.rs), of the broadcast   *)
(* channel built on it (src/src/sync/mpmc/*.rs) and of the thread pool     *)
(* (src/src/threadpool.rs).                                                *)
(*                                                                         *)
(* The queue is modelled at the level of its raw pointers: a heap of       *)
(* Blocks addressed by small integers, the Core's head/tail/counters and   *)
(* one record per MultiQueue handle.  Every operation is a pure operator   *)
(* over the record q = [blocks, core, hs, fault] that follows the Rust     *)
(* statement by statement; the actions apply the operators to the state.   *)
(*                                                                         *)
(* Specifications:                                                         *)
(*   SpecOne       one handle, never forked                                *)
(*   SpecFF        forks made before the first push, no release            *)
(*   SpecSeq       any handles, used and released from a single thread     *)
(*   SpecRel       SpecSeq with push_back, pop_front, fork and drop only   *)
(*   SpecPoison    SpecRel with the lock on the Core poisoned by a panic   *)
(*   SpecMQ        any handles, used and released from several threads     *)
(*   SpecOrd       a channel with one Sender: send, recv, subscribe        *)
(*   SpecChNR      a channel with Sender clones and Sender release         *)
(*   FairSpecChNR  SpecChNR with the executor's fairness                   *)
(*   SpecCh        SpecChNR with Receiver release                          *)
(*   SpecSnd       a channel whose Senders are cloned and released         *)
(*   SpecWake      SpecOrd with wakes that come from outside the channel   *)
(*   SpecRcv       SpecOrd with Receiver release                           *)
(*   FairSpecRcv   SpecRcv with the executor's fairness                    *)
(*   SpecPool      the thread pool: jobs, scheduler, workers               *)
(*   FairSpecPool  SpecPool with the runtime's fairness                    *)
(*   SpecLong      SpecPool, every job having MaxTasks tasks               *)
(*   SpecPoolStop  SpecPool with stop()                                    *)
(*   SpecPoolDrop  SpecPool with the pool handle dropped, not stopped      *)
(*   FairSpecPoolDrop  SpecPoolDrop with the runtime's fairness            *)
(***************************************************************************)
EXTENDS Integers, Sequences, FiniteSets, TLC

\* ------------------------------------------------------------------ bounds
MaxPush    == 3     \* push_back / send calls in one behaviour
OnePush    == 12    \* push_back calls on the single handle of SpecOne
MaxHandles == 3     \* MultiQueue handles ever created on one core
MaxSenders == 2     \* Sender handles ever created on one channel
MaxBound   == 2     \* largest bound given to channel(bound)
MaxJobs    == 3     \* ThreadPool::add_job calls in one behaviour
MaxWorkers == 2     \* largest max_workers given to ThreadPool::new
MaxTasks   == 2     \* largest number of tasks in one ThreadJob

\* --------------------------------------------------------------- constants
NULL      == 0      \* std::ptr::null_mut()
None      == 0      \* Option::None (pushed values are 1, 2, 3, ...)
Unbounded == 0 - 1  \* Sender.bound = None
NoJob     == 0      \* no ThreadJob (jobs are numbered 1, 2, 3, ... as submitted)
NoResult  == <<>>   \* no call has met the poisoned lock yet

Handles == 0 .. (MaxHandles - 1) \* handle 0 is the one MultiQueue::new returns
SenderIds == 1 .. MaxSenders

VARIABLES
    blocks,        \* heap: the Blocks made so far, by address 1, 2, ... (a sequence)
    core,          \* Core {head, tail, reference_count, count_at_end_of_queue}
    hs,            \* Handles -> MultiQueue {head, at_end_of_queue} + lifecycle
    fault,         \* the fault the program ran into ("none" while it has not)
    npush,         \* history: number of values pushed (the k-th pushed value is k)
    view,          \* history: per handle, the values it is still owed
    got,           \* history: what front() showed handle 0 before each pop_front,
                   \*          kept while the core has never been forked
    parent,        \* history: per handle, the handle it was forked from
    forked,        \* history: fork() has been called on this core
    \* ---- channel layer
    bound,         \* Sender.bound
    live_senders,  \* Channel.live_senders
    senders,       \* Channel.senders   (ids that have a waker registered)
    receivers,     \* Channel.receivers (ids that have a waker registered)
    spc,           \* per Sender: where its send() future stands
    rpc,           \* per Receiver: where its recv() future stands
    swoken,        \* per Sender: its task has been woken since its last poll
    rwoken,        \* per Receiver: its task has been woken since its last poll
    rval,          \* per Receiver: the clone front() handed to recv()
    recvd,         \* history: per Receiver, the values recv() returned
    start,         \* history: per Receiver, npush when it was created
    \* ---- thread pool (src/src/threadpool.rs)
    wm,            \* WorkerManager {workers, next_worker_id, current_workers, max_workers}
    job_channel,   \* ThreadPool.job_sender -> scheduler: the jobs in flight
    idle_channel,  \* idle_sender -> scheduler: the worker ids in flight
    inbox,         \* per worker: Worker.job_sender -> worker, the jobs in flight
    sched,         \* the scheduler task: where it stands, the job it holds
    worker,        \* per worker: where its task stands, the job and task it runs
    job,           \* per job: its tasks, and the history of what happened to it
    pstop,         \* where the caller's stop() stands
    \* ---- the Mutex around the Core
    poisoned,      \* a thread panicked while it held the lock on the Core
    result         \* what the last push_back or fork that met the poisoned
                   \* lock returned

qvars  == <<blocks, core, hs, fault>>
hvars  == <<npush, view, got, parent, forked>>
chvars == <<bound, live_senders, senders, receivers, spc, rpc, swoken, rwoken,
            rval, recvd, start>>
pvars  == <<wm, job_channel, idle_channel, inbox, sched, worker, job, pstop>>
lvars  == <<poisoned, result>>
vars   == <<qvars, hvars, chvars, pvars, lvars>>

\* ------------------------------------------------------------- heap record
\* Block::new: next null, reference_count 1.
NewBlock(object) ==
    [next |-> NULL, object |-> object, reference_count |-> 1, allocated |-> TRUE]

\* Memory Box does not have handed out: never used, or dropped by update().
FreeBlock ==
    [next |-> NULL, object |-> None, reference_count |-> 0, allocated |-> FALSE]

\* Core::new
NewCore ==
    [head |-> NULL, tail |-> NULL, reference_count |-> 1, count_at_end_of_queue |-> 0]

\* MultiQueue::new
NewHandle ==
    [head |-> NULL, at_end_of_queue |-> FALSE, state |-> "live", latch |-> 0]

\* A handle that has been dropped.
DeadHandle ==
    [head |-> NULL, at_end_of_queue |-> FALSE, state |-> "dead", latch |-> 0]

NoHandle ==
    [head |-> NULL, at_end_of_queue |-> FALSE, state |-> "free", latch |-> 0]

Q == [blocks |-> blocks, core |-> core, hs |-> hs, fault |-> fault]

\* ----------------------------------------------------------------- faults
\* The first fault is kept: what the program did before it is what matters.
Fault(q, kind) == IF q.fault = "none" THEN [q EXCEPT !.fault = kind] ELSE q

\* A dereference *p: of memory already given back to Box it is a use after free.
Deref(q, p) ==
    IF p = NULL THEN Fault(q, "null_deref")
    ELSE IF ~q.blocks[p].allocated THEN Fault(q, "use_after_free")
    ELSE q

\* (*p).reference_count -= 1 on a u32.  The count is kept as its residue modulo
\* 2^32 nearest zero, so 0 - 1 is -1 (0xFFFF_FFFF): a build with overflow checks
\* panics there, one without wraps.
DecBlock(q, p) ==
    LET q1 == Deref(q, p)
        q2 == IF q.blocks[p].reference_count = 0 THEN Fault(q1, "underflow") ELSE q1
    IN  [q2 EXCEPT !.blocks[p].reference_count = @ - 1]

\* core.count_at_end_of_queue -= 1
DecAtEnd(q) ==
    LET q1 == IF q.core.count_at_end_of_queue = 0 THEN Fault(q, "underflow") ELSE q
    IN  [q1 EXCEPT !.core.count_at_end_of_queue = @ - 1]

\* --------------------------------------------------------------- traversal
\* MultiQueue::count_size_from / Core::size: blocks from p to the null link.
RECURSIVE CountFrom(_, _)
CountFrom(q, p) ==
    IF p = NULL THEN 0 ELSE 1 + CountFrom(q, q.blocks[p].next)

\* The last block reachable from p (NULL when p is NULL).
RECURSIVE LastFrom(_, _)
LastFrom(q, p) ==
    IF p = NULL THEN NULL
    ELSE IF q.blocks[p].next = NULL THEN p
    ELSE LastFrom(q, q.blocks[p].next)

\* The blocks from p to the null link, as a set of addresses.
RECURSIVE ChainSet(_, _)
ChainSet(q, p) ==
    IF p = NULL THEN {} ELSE {p} \cup ChainSet(q, q.blocks[p].next)

\* ------------------------------------------------------------------- Core
\* Core::size
CoreSize(q) == CountFrom(q, q.core.head)

\* Core::empty
CoreEmpty(q) == q.core.head = NULL

\* A push that links the new block in front of the head instead of after the tail.
CorePushFront(q, object, a) ==
    LET q1 == [q EXCEPT !.blocks = Append(@, NewBlock(object))]
    IN  [q1 EXCEPT !.blocks[a].next = q.core.head,
                   !.blocks[a].reference_count = q.core.reference_count,
                   !.core.head = a,
                   !.core.tail = IF q.core.tail = NULL THEN a ELSE @]

\* Core::push_back, the new block placed at address a, the next unused one.
CorePushBack(q, object, a) ==
    LET q1 == [q EXCEPT !.blocks = Append(@, NewBlock(object))]
        q2 == IF q.core.head = NULL
              THEN [q1 EXCEPT !.core.head = a, !.core.tail = a]
              ELSE IF q.core.tail = NULL
                   THEN Fault(q1, "assert")
                   ELSE [q1 EXCEPT !.blocks[q.core.tail].next = a, !.core.tail = a]
    IN  IF q2.fault = "assert" THEN q2
        ELSE [q2 EXCEPT !.blocks[a].reference_count = q.core.reference_count]

\* The while loop of Core::update: unlink and free every block whose count is 0.
RECURSIVE UpdateScan(_, _, _)
UpdateScan(q, tmp, previous) ==
    IF tmp = NULL THEN q
    ELSE IF q.blocks[tmp].reference_count = 0
    THEN LET nxt == q.blocks[tmp].next
             q1  == IF q.core.tail = tmp THEN [q EXCEPT !.core.tail = nxt] ELSE q
             q2  == IF previous # NULL
                    THEN [q1 EXCEPT !.blocks[previous].next = nxt]
                    ELSE [q1 EXCEPT !.core.head = nxt]
             q3  == [q2 EXCEPT !.blocks[tmp] = FreeBlock]
         IN  UpdateScan(q3, nxt, previous)
    ELSE UpdateScan(q, q.blocks[tmp].next, tmp)

\* Core::update
CoreUpdate(q) ==
    LET q1 == UpdateScan(q, q.core.head, NULL)
    IN  IF q1.core.tail = NULL
        THEN [q1 EXCEPT !.core.tail = LastFrom(q1, q1.core.head)]
        ELSE q1

\* Core::shared_size
CoreSharedSize(q) ==
    IF q.core.count_at_end_of_queue = q.core.reference_count /\ CoreSize(q) = 1
    THEN 0
    ELSE CoreSize(q)

\* ------------------------------------------------------------- MultiQueue
\* A push_back that gives the new block a count of 1 instead of one per handle.
PushBackMutant(q, h, object, a) ==
    LET q1 == CorePushBack(q, object, a)
    IN  [q1 EXCEPT !.blocks[a].reference_count = 1,
                   !.hs[h].head = IF q.hs[h].head = NULL THEN q1.core.head ELSE @]

\* MultiQueue::push_back through handle h.
PushBack(q, h, object, a) ==
    LET q1 == CorePushBack(q, object, a)
    IN  IF q.hs[h].head = NULL
        THEN [q1 EXCEPT !.hs[h].head = q1.core.head]
        ELSE q1

\* MultiQueue::size
Size(q, h) ==
    IF CoreEmpty(q) THEN 0
    ELSE IF q.hs[h].at_end_of_queue
    THEN IF q.hs[h].head = NULL
         THEN CoreSize(q)
         ELSE CountFrom(q, q.blocks[q.hs[h].head].next)
    ELSE CountFrom(q, IF q.hs[h].head = NULL THEN q.core.head ELSE q.hs[h].head)

\* The blocks MultiQueue::size counts for handle h: the ones it has yet to read.
Pending(q, h) ==
    IF CoreEmpty(q) THEN {}
    ELSE IF q.hs[h].at_end_of_queue
    THEN IF q.hs[h].head = NULL
         THEN ChainSet(q, q.core.head)
         ELSE ChainSet(q, q.blocks[q.hs[h].head].next)
    ELSE ChainSet(q, IF q.hs[h].head = NULL THEN q.core.head ELSE q.hs[h].head)

\* MultiQueue::empty
Empty(q, h) ==
    IF q.hs[h].head = NULL THEN CoreEmpty(q)
    ELSE IF q.hs[h].at_end_of_queue THEN q.blocks[q.hs[h].head].next = NULL
    ELSE FALSE

\* MultiQueue::shared_size.  With every handle counted at the end it reads
\* (*core.head).next, a null dereference when the chain is empty.
SharedSize(q) ==
    IF q.core.count_at_end_of_queue = q.core.reference_count
    THEN IF q.core.head = NULL THEN 0 ELSE CountFrom(q, q.blocks[q.core.head].next)
    ELSE CoreSharedSize(q)

SharedSizeFaults(q) ==
    q.core.count_at_end_of_queue = q.core.reference_count /\ q.core.head = NULL

\* MultiQueue::references
References(q) == q.core.reference_count

\* MultiQueue::front (front_mut takes the same steps): the state it leaves and
\* the value it returns.
Front(q, h) ==
    IF CoreEmpty(q) THEN [q |-> q, ret |-> None]
    ELSE
    LET q1   == IF q.hs[h].head = NULL THEN [q EXCEPT !.hs[h].head = q.core.head] ELSE q
        head == q1.hs[h].head
    IN  IF q1.hs[h].at_end_of_queue
        THEN LET next == q1.blocks[head].next
                 q2   == Deref(q1, head)
             IN  IF next = NULL THEN [q |-> q2, ret |-> None]
                 ELSE LET q3 == CoreUpdate(DecBlock(q2, head))
                          q4 == DecAtEnd([q3 EXCEPT !.hs[h].head = next,
                                                    !.hs[h].at_end_of_queue = FALSE])
                      IN  [q |-> Deref(q4, next), ret |-> q4.blocks[next].object]
        ELSE [q |-> Deref(q1, head), ret |-> q1.blocks[head].object]

\* A pop_front that never marks the handle at the end of the queue.
PopFrontMutant(q, h) ==
    IF CoreEmpty(q) THEN q
    ELSE LET q1 == IF q.hs[h].head = NULL THEN [q EXCEPT !.hs[h].head = q.core.head] ELSE q
         IN  CoreUpdate([DecBlock(q1, q1.hs[h].head) EXCEPT
                            !.hs[h].head = IF q1.blocks[q1.hs[h].head].next = NULL
                                           THEN @ ELSE q1.blocks[q1.hs[h].head].next])

\* MultiQueue::pop_front
PopFront(q, h) ==
    IF CoreEmpty(q) THEN q
    ELSE
    LET q1   == IF q.hs[h].head = NULL THEN [q EXCEPT !.hs[h].head = q.core.head] ELSE q
        head == q1.hs[h].head
        q2   == Deref(q1, head)
        next == q1.blocks[head].next
    IN  IF q1.hs[h].at_end_of_queue
        THEN IF next = NULL THEN q2
             ELSE LET q3 == [DecBlock(q2, head) EXCEPT !.hs[h].head = next]
                      nn == q3.blocks[next].next
                      q4 == Deref(q3, next)
                  IN  IF nn # NULL
                      THEN CoreUpdate(DecAtEnd(
                               [DecBlock(q4, next) EXCEPT
                                   !.hs[h].head = nn,
                                   !.hs[h].at_end_of_queue = FALSE]))
                      ELSE CoreUpdate(q4)
        ELSE IF next = NULL
             THEN CoreUpdate([q2 EXCEPT !.hs[h].at_end_of_queue = TRUE,
                                         !.core.count_at_end_of_queue = @ + 1])
             ELSE CoreUpdate([DecBlock(q2, head) EXCEPT !.hs[h].head = next])

\* MultiQueue::pop_all: pop_front while size() > 0.
RECURSIVE PopAllN(_, _, _)
PopAllN(q, h, fuel) ==
    IF fuel = 0 \/ Size(q, h) = 0 THEN q ELSE PopAllN(PopFront(q, h), h, fuel - 1)

PopAll(q, h) == PopAllN(q, h, Len(q.blocks) + 1)

\* The reference-count walk of MultiQueue::fork, from the parent's head.
RECURSIVE ForkWalk(_, _)
ForkWalk(q, tmp) ==
    IF tmp = NULL THEN q
    ELSE ForkWalk([Deref(q, tmp) EXCEPT !.blocks[tmp].reference_count = @ + 1],
                  q.blocks[tmp].next)

\* A fork that starts at the head of the core instead of the parent's position.
ForkFromHead(q, h, n) ==
    [ForkWalk([q EXCEPT !.core.reference_count = @ + 1], q.core.head)
        EXCEPT !.hs[n] = NewHandle]

\* A fork that copies the parent's head but not its at_end_of_queue flag.
ForkForgetsEnd(q, h, n) ==
    LET q1 == [q EXCEPT !.core.reference_count = @ + 1]
        q2 == ForkWalk(q1, q.hs[h].head)
    IN  [q2 EXCEPT !.hs[n] = [NewHandle EXCEPT !.head = q.hs[h].head]]

\* A fork that does not count the new handle on the core.
ForkUncounted(q, h, n) ==
    [ForkWalk(q, q.hs[h].head)
        EXCEPT !.hs[n] = [NewHandle EXCEPT
                             !.head = q.hs[h].head,
                             !.at_end_of_queue = q.hs[h].at_end_of_queue]]

\* MultiQueue::fork of handle h into the new handle n.
Fork(q, h, n) ==
    LET q1 == [q EXCEPT !.core.reference_count = @ + 1]
        q2 == ForkWalk(q1, q.hs[h].head)
        q3 == IF q.hs[h].at_end_of_queue
              THEN [q2 EXCEPT !.core.count_at_end_of_queue = @ + 1]
              ELSE q2
    IN  [q3 EXCEPT !.hs[n] = [NewHandle EXCEPT
                                 !.head = q.hs[h].head,
                                 !.at_end_of_queue = q.hs[h].at_end_of_queue]]

\* MultiQueueIterator::next called until it returns None, the iterator standing
\* at block p: the objects it yields.
RECURSIVE IterFrom(_, _)
IterFrom(q, p) ==
    IF p = NULL THEN <<>>
    ELSE <<q.blocks[p].object>> \o IterFrom(q, q.blocks[p].next)

\* MultiQueue::iter followed by the whole iteration.  MultiQueueIterator::new
\* copies the head of the handle and nothing else; the queue is not changed.
Iter(q, h) == IterFrom(q, q.hs[h].head)

\* What the handle would hand out from here on if it alone kept calling front()
\* and pop_front(): the values front() returns, until it returns None.
RECURSIVE DrainN(_, _, _)
DrainN(q, h, fuel) ==
    LET f == Front(q, h)
    IN  IF fuel = 0 \/ f.ret = None THEN <<>>
        ELSE <<f.ret>> \o DrainN(PopFront(f.q, h), h, fuel - 1)

Drain(q, h) == DrainN(q, h, Len(q.blocks) + 1)

\* ------------------------------------------------------------ the program
\* Handles that still hold the Arc of the core.
Holding == {h \in Handles : hs[h].state \in {"live", "popped", "latched"}}

\* The address Box::new returns: memory not used before.  (Memory given back is
\* not handed out again, so a pointer into it is always told from a valid one.)
NewAddr == Len(blocks) + 1

\* The state an operation leaves.  An operation that runs into a fault (a count
\* decremented below zero, a dereference of freed or null memory, a failed
\* assert_eq!) does what the build makes of it: the model records the fault and
\* follows the process no further, so nothing is assumed about what comes next.
Commit(qn) ==
    IF qn.fault = "none"
    THEN blocks' = qn.blocks /\ core' = qn.core /\ hs' = qn.hs /\ UNCHANGED fault
    ELSE fault' = qn.fault /\ UNCHANGED <<blocks, core, hs>>

InitQueue ==
    /\ blocks = <<>>
    /\ fault = "none"
    /\ npush = 0
    /\ got = <<>>
    /\ view = [h \in Handles |-> <<>>]
    /\ parent = [h \in Handles |-> h]
    /\ poisoned = FALSE
    /\ result = NoResult

IdleChannel ==
    /\ bound = Unbounded /\ live_senders = 0
    /\ senders = {} /\ receivers = {}
    /\ spc = [s \in SenderIds |-> "none"]
    /\ rpc = [r \in Handles |-> "none"]
    /\ swoken = [s \in SenderIds |-> FALSE]
    /\ rwoken = [r \in Handles |-> FALSE]
    /\ rval = [r \in Handles |-> None]
    /\ recvd = [r \in Handles |-> <<>>]
    /\ start = [r \in Handles |-> 0]

\* ------------------------------------------------ thread pool: records
JobIds == 1 .. MaxJobs
WorkerIds == 0 .. (MaxWorkers - 1)      \* WorkerId: next_worker_id starts at 0

\* WorkerManager::new
NewWorkerManager(max_workers) ==
    [workers |-> {}, next_worker_id |-> 0, current_workers |-> 0,
     max_workers |-> max_workers]

\* A worker the scheduler has not created.
NoWorkerTask == [pc |-> "absent", job |-> NoJob, k |-> 0, aborted |-> FALSE]

\* A ThreadJob the caller has not built yet.
NoThreadJob ==
    [tasks |-> 0, bad |-> 0, st |-> "new", on |-> {}, handed |-> 0,
     begun |-> <<>>, ended |-> <<>>, late |-> FALSE]

\* No pool: the state of the pool variables while the queue or the channel is
\* the program under study.
IdlePool ==
    /\ wm = NewWorkerManager(0)
    /\ job_channel = <<>> /\ idle_channel = <<>>
    /\ inbox = [w \in WorkerIds |-> <<>>]
    /\ sched = [pc |-> "returned", job |-> NoJob, aborted |-> FALSE]
    /\ worker = [w \in WorkerIds |-> NoWorkerTask]
    /\ job = [j \in JobIds |-> NoThreadJob]
    /\ pstop = "no"

\* ------------------------------------------- the queue used on its own
\* let mut queue = MultiQueue::new();
InitMQ ==
    /\ InitQueue
    /\ core = NewCore
    /\ hs = [h \in Handles |-> IF h = 0 THEN NewHandle ELSE NoHandle]
    /\ forked = FALSE
    /\ IdleChannel
    /\ IdlePool

\* h.push_back(npush + 1)
MQPushBack(h) ==
    /\ fault = "none" /\ hs[h].state = "live"
    /\ npush < MaxPush
    /\ Commit(PushBack(Q, h, npush + 1, NewAddr))
    /\ npush' = npush + 1
    /\ view' = [x \in Handles |-> IF x \in Holding THEN Append(view[x], npush + 1)
                                  ELSE view[x]]
    /\ UNCHANGED <<got, parent, forked, chvars, pvars, lvars>>

\* h.front()
MQFront(h) ==
    /\ fault = "none" /\ hs[h].state = "live"
    /\ Commit(Front(Q, h).q)
    /\ UNCHANGED <<hvars, chvars, pvars, lvars>>

\* h.pop_front()
MQPopFront(h) ==
    /\ fault = "none" /\ hs[h].state = "live"
    /\ Commit(PopFront(Q, h))
    /\ got' = IF forked \/ Front(Q, h).ret = None THEN got
              ELSE Append(got, Front(Q, h).ret)
    /\ view' = [view EXCEPT ![h] = IF @ = <<>> THEN @ ELSE Tail(@)]
    /\ UNCHANGED <<npush, parent, forked, chvars, pvars, lvars>>

\* h.pop_all()
MQPopAll(h) ==
    /\ fault = "none" /\ hs[h].state = "live"
    /\ Size(Q, h) > 0
    /\ Commit(PopAll(Q, h))
    /\ got' = IF forked THEN got ELSE got \o Drain(Q, h)
    /\ view' = [view EXCEPT ![h] = <<>>]
    /\ UNCHANGED <<npush, parent, forked, chvars, pvars, lvars>>

\* let n = h.fork().unwrap();
MQFork(h, n) ==
    /\ fault = "none" /\ hs[h].state = "live"
    /\ hs[n].state = "free"
    /\ \A m \in Handles : m < n => hs[m].state # "free"
    /\ Commit(Fork(Q, h, n))
    /\ view' = [view EXCEPT ![n] = view[h]]
    /\ parent' = [parent EXCEPT ![n] = h]
    /\ forked' = TRUE
    /\ got' = <<>>
    /\ UNCHANGED <<npush, chvars, pvars, lvars>>

\* impl Drop for MultiQueue, first part: self.pop_all(), which ends when
\* size() returns 0.  The pops of one handle commute with what other handles do
\* in between, so the loop is one step.
DropPopAll(q, h) == [PopAll(q, h) EXCEPT !.hs[h].state = "popped"]

\* Second part: the handle reads the count of its head block outside the lock.
DropRead(q, h) ==
    IF q.hs[h].head = NULL
    THEN [q EXCEPT !.hs[h].state = "latched"]
    ELSE [Deref(q, q.hs[h].head) EXCEPT
             !.hs[h].state = "latched",
             !.hs[h].latch = q.blocks[q.hs[h].head].reference_count]

\* Last part: the unlocked store of the count read before, less one, then
\* core.reference_count -= 1 under the lock.  landed = FALSE is the race in
\* which a locked store to the same count lands after this one.  The handle
\* gives up its Arc; the last one to do so runs Core::drop, which is update().
DropFinish(q, h, landed) ==
    LET head == q.hs[h].head
        q1 == IF head = NULL \/ ~landed THEN q
              ELSE LET q0 == Deref(q, head)
                       qf == IF q.hs[h].latch = 0 THEN Fault(q0, "underflow") ELSE q0
                   IN  [qf EXCEPT !.blocks[head].reference_count = q.hs[h].latch - 1]
        q2 == IF q1.core.reference_count = 0 THEN Fault(q1, "underflow") ELSE q1
        q3 == [q2 EXCEPT !.core.reference_count = @ - 1, !.hs[h] = DeadHandle]
    IN  IF \E x \in Handles : x # h /\ q.hs[x].state \in {"live", "popped", "latched"}
        THEN q3
        ELSE CoreUpdate(q3)

\* The unlocked store may lose to a locked one only if one was made meanwhile.
Landings(h) ==
    {TRUE} \cup {FALSE : x \in {1} \cap
                    (IF hs[h].head # NULL
                        /\ blocks[hs[h].head].reference_count # hs[h].latch
                     THEN {1} ELSE {})}

MQDropPopAll(h) ==
    /\ fault = "none" /\ hs[h].state = "live"
    /\ Commit(DropPopAll(Q, h))
    /\ got' = <<>>
    /\ view' = [view EXCEPT ![h] = <<>>]
    /\ UNCHANGED <<npush, parent, forked, chvars, pvars, lvars>>

MQDropRead(h) ==
    /\ fault = "none" /\ hs[h].state = "popped"
    /\ Commit(DropRead(Q, h))
    /\ UNCHANGED <<hvars, chvars, pvars, lvars>>

MQDropFinish(h) ==
    /\ fault = "none" /\ hs[h].state = "latched"
    /\ \E landed \in Landings(h) : Commit(DropFinish(Q, h, landed))
    /\ UNCHANGED <<hvars, chvars, pvars, lvars>>

NextMQ ==
    \/ \E h \in Handles : MQPushBack(h)
    \/ \E h \in Handles : MQFront(h)
    \/ \E h \in Handles : MQPopFront(h)
    \/ \E h \in Handles : MQPopAll(h)
    \/ \E h, n \in Handles : MQFork(h, n)
    \/ \E h \in Handles : MQDropPopAll(h)
    \/ \E h \in Handles : MQDropRead(h)
    \/ \E h \in Handles : MQDropFinish(h)

SpecMQ == InitMQ /\ [][NextMQ]_vars

\* ------------------------------------ the queue used from a single thread
\* drop(h): with one thread nothing comes between the steps of Drop.
MQDrop(h) ==
    /\ fault = "none" /\ hs[h].state = "live"
    /\ Commit(DropFinish(DropRead(DropPopAll(Q, h), h), h, TRUE))
    /\ got' = <<>>
    /\ view' = [view EXCEPT ![h] = <<>>]
    /\ UNCHANGED <<npush, parent, forked, chvars, pvars, lvars>>

NextSeq ==
    \/ \E h \in Handles : MQPushBack(h)
    \/ \E h \in Handles : MQFront(h)
    \/ \E h \in Handles : MQPopFront(h)
    \/ \E h \in Handles : MQPopAll(h)
    \/ \E h, n \in Handles : MQFork(h, n)
    \/ \E h \in Handles : MQDrop(h)

SpecSeq == InitMQ /\ [][NextSeq]_vars

\* ------------------- handles created and released between pushes and pops
NextRel ==
    \/ \E h \in Handles : MQPushBack(h)
    \/ \E h \in Handles : MQPopFront(h)
    \/ \E h, n \in Handles : MQFork(h, n)
    \/ \E h \in Handles : MQDrop(h)

SpecRel == InitMQ /\ [][NextRel]_vars

\* ------------------------------------------- the lock on the Core, poisoned
\* self.core.lock() returns Err once a thread has panicked while it held the
\* guard, and keeps returning Err from then on.

\* A push_back that takes no notice of the lock.
PushBackIgnoresLock(q, h, object, a, lock_ok) ==
    [q |-> PushBack(q, h, object, a), ret |-> <<"Push", object>>]

\* MultiQueue::push_back with its match on self.core.lock(): the state it
\* leaves and the Result it returns.
LockedPushBack(q, h, object, a, lock_ok) ==
    IF lock_ok
    THEN [q |-> PushBack(q, h, object, a), ret |-> <<"Ok">>]
    ELSE [q |-> q, ret |-> <<"Push", object>>]

\* A fork that takes no notice of the lock.
ForkIgnoresLock(q, h, n, lock_ok) ==
    [q |-> Fork(q, h, n), ret |-> <<"Fork">>]

\* MultiQueue::fork with its match on self.core.lock().
LockedFork(q, h, n, lock_ok) ==
    IF lock_ok
    THEN [q |-> Fork(q, h, n), ret |-> <<"Ok", n>>]
    ELSE [q |-> q, ret |-> <<"Fork">>]

\* h.pop_front() in a build with overflow checks, the count of the head block
\* of h being 0 already: the first (*self.head).reference_count -= 1 panics.
\* The call has written nothing by then; the guard is dropped by the unwinding
\* and the Mutex is poisoned.
MQPopFrontPanics(h) ==
    /\ fault = "none" /\ hs[h].state = "live" /\ ~poisoned
    /\ ~CoreEmpty(Q)
    /\ hs[h].head # NULL
    /\ DecBlock(Q, hs[h].head).fault = "underflow"
    /\ blocks[hs[h].head].next # NULL
    /\ poisoned' = TRUE
    /\ UNCHANGED <<qvars, hvars, chvars, pvars, result>>

\* h.push_back(npush + 1) on the poisoned lock: the value is not pushed, so the
\* next push carries it again.
MQPushBackPoisoned(h) ==
    /\ fault = "none" /\ hs[h].state = "live" /\ poisoned
    /\ npush < MaxPush
    /\ LET r == LockedPushBack(Q, h, npush + 1, NewAddr, ~poisoned)
       IN  Commit(r.q) /\ result' = r.ret
    /\ UNCHANGED <<hvars, chvars, pvars, poisoned>>

\* h.fork() on the poisoned lock, n being where the handle it would have made
\* would stand: a place no handle has stood in yet, or that of a released one.
MQForkPoisoned(h, n) ==
    /\ fault = "none" /\ hs[h].state = "live" /\ poisoned
    /\ hs[n].state \in {"free", "dead"}
    /\ LET r == LockedFork(Q, h, n, ~poisoned)
       IN  Commit(r.q) /\ result' = r.ret
    /\ UNCHANGED <<hvars, chvars, pvars, poisoned>>

NextPoison ==
    \/ ~poisoned /\ NextRel
    \/ \E h \in Handles : MQPopFrontPanics(h)
    \/ \E h \in Handles : MQPushBackPoisoned(h)
    \/ \E h, n \in Handles : MQForkPoisoned(h, n)

SpecPoison == InitMQ /\ [][NextPoison]_vars

\* ---------------------------------------- one handle that is never forked
\* queue.push_back(npush + 1), with room for the queue to drain and refill.
OnePushBack ==
    /\ fault = "none" /\ npush < OnePush
    /\ Commit(PushBack(Q, 0, npush + 1, NewAddr))
    /\ npush' = npush + 1
    /\ view' = [view EXCEPT ![0] = Append(@, npush + 1)]
    /\ UNCHANGED <<got, parent, forked, chvars, pvars, lvars>>

NextOne ==
    \/ OnePushBack
    \/ MQFront(0)
    \/ MQPopFront(0)
    \/ MQPopAll(0)

SpecOne == InitMQ /\ [][NextOne]_vars

\* ----------------------------- forks first, then pushes and reads; no release
\* let n = h.fork().unwrap(), while nothing has been pushed yet.
FFFork(h, n) == npush = 0 /\ MQFork(h, n)

NextFF ==
    \/ \E h, n \in Handles : FFFork(h, n)
    \/ \E h \in Handles : MQPushBack(h)
    \/ \E h \in Handles : MQFront(h)
    \/ \E h \in Handles : MQPopFront(h)
    \/ \E h \in Handles : MQPopAll(h)

SpecFF == InitMQ /\ [][NextFF]_vars

\* --------------------------------------------------- the broadcast channel
\* Handle 0 is Channel.queue; Receiver r owns handle r, a fork of it.
\* A channel-locked section is one step: nothing else takes the channel lock
\* meanwhile, and the queue operations other handles run under the core lock
\* alone commute with the ones done inside it.
RecvIds == Handles \ {0}

LiveSenderIds == {s \in SenderIds : spc[s] # "none"}
LiveRecvIds   == {r \in RecvIds : rpc[r] \notin {"none", "gone"}}

\* Sent values some live receiver has not received yet.
Outstanding ==
    IF LiveRecvIds = {} THEN 0
    ELSE CHOOSE n \in 0 .. MaxPush :
            /\ \E r \in LiveRecvIds : Len(view[r]) = n
            /\ \A r \in LiveRecvIds : Len(view[r]) <= n

\* send() calls that have started and not pushed yet.
SendsInFlight == Cardinality({s \in SenderIds : spc[s] \in {"ready", "waiting"}})

\* Channel::wake: every waker of the table is woken.  A wake matters to a task
\* that is suspended or in the middle of a poll that will suspend; a task that
\* is not takes its next poll anyway.
Wake(woken, table, pc) ==
    [x \in DOMAIN woken |-> woken[x] \/ (x \in table /\ pc[x] \in {"waiting", "gap"})]

\* bounded::channel(bound) / unbounded::unbounded_channel(): Channel::new,
\* Sender::new, Receiver::new.
InitCh ==
    /\ InitQueue
    /\ LET q0 == [blocks |-> <<>>, core |-> NewCore,
                  hs |-> [h \in Handles |-> IF h = 0 THEN NewHandle ELSE NoHandle],
                  fault |-> "none"]
       IN  hs = Fork(q0, 0, 1).hs /\ core = Fork(q0, 0, 1).core
    /\ forked = TRUE
    /\ bound \in {Unbounded} \cup (1 .. MaxBound)
    /\ live_senders = 1
    /\ senders = {} /\ receivers = {}
    /\ spc = [s \in SenderIds |-> IF s = 1 THEN "idle" ELSE "none"]
    /\ rpc = [r \in Handles |-> IF r = 1 THEN "idle" ELSE "none"]
    /\ swoken = [s \in SenderIds |-> FALSE]
    /\ rwoken = [r \in Handles |-> FALSE]
    /\ rval = [r \in Handles |-> None]
    /\ recvd = [r \in Handles |-> <<>>]
    /\ start = [r \in Handles |-> 0]
    /\ IdlePool

\* A poll that finds room whatever the backlog holds.
AlwaysSendSpace(q, b) == TRUE

\* The test of Sender::get_send_space: no bound, or shared_size() below it.
HasSendSpace(q, b) == b = Unbounded \/ SharedSize(q) < b

\* One poll of Sender::get_send_space, under the channel lock.
SendPoll(s) ==
    /\ swoken' = [swoken EXCEPT ![s] = FALSE]
    /\ IF bound # Unbounded /\ SharedSizeFaults(Q)
       THEN /\ fault' = "null_deref"
            /\ UNCHANGED <<blocks, core, hs, spc, senders>>
       ELSE /\ IF HasSendSpace(Q, bound)
               THEN spc' = [spc EXCEPT ![s] = "ready"] /\ UNCHANGED senders
               ELSE spc' = [spc EXCEPT ![s] = "waiting"] /\ senders' = senders \cup {s}
            /\ UNCHANGED qvars

\* sender.send(v) is called: the first poll of get_send_space.
SendStart(s) ==
    /\ fault = "none" /\ spc[s] = "idle"
    /\ npush + SendsInFlight < MaxPush
    /\ SendPoll(s)
    /\ UNCHANGED <<hvars, bound, pvars, lvars, live_senders, receivers, rpc, rwoken, rval, recvd,
                   start>>

\* The suspended send() is polled again after a wake.
SendRepoll(s) ==
    /\ fault = "none" /\ spc[s] = "waiting" /\ swoken[s]
    /\ SendPoll(s)
    /\ UNCHANGED <<hvars, bound, pvars, lvars, live_senders, receivers, rpc, rwoken, rval, recvd,
                   start>>

\* Channel::send: push_back, then pop_all of the channel's own handle.
ChannelSend(q, object, a) == PopAll(PushBack(q, 0, object, a), 0)

\* Sender::send after get_send_space: the second channel-locked section.
SendPush(s) ==
    /\ fault = "none" /\ spc[s] = "ready"
    /\ Commit(ChannelSend(Q, npush + 1, NewAddr))
    /\ senders' = senders \ {s}
    /\ rwoken' = Wake(rwoken, receivers, rpc)
    /\ spc' = [spc EXCEPT ![s] = "idle"]
    /\ npush' = npush + 1
    /\ view' = [x \in Handles |-> IF x \in LiveRecvIds THEN Append(view[x], npush + 1)
                                  ELSE view[x]]
    /\ UNCHANGED <<got, parent, forked, bound, pvars, lvars, live_senders, receivers, rpc, swoken,
                   rval, recvd, start>>

\* A clone that does not count the new Sender.
SendersUncounted(n) == n

\* Channel::increment_senders
IncrementSenders(n) == n + 1

\* Channel::decrement_senders
DecrementSenders(n) == n - 1

\* Sender::clone
SenderClone(s, n) ==
    /\ fault = "none" /\ s \in LiveSenderIds
    /\ spc[n] = "none" /\ \A m \in SenderIds : m < n => spc[m] # "none"
    /\ live_senders' = IncrementSenders(live_senders)
    /\ spc' = [spc EXCEPT ![n] = "idle"]
    /\ UNCHANGED <<qvars, hvars, bound, pvars, lvars, senders, receivers, rpc, swoken, rwoken,
                   rval, recvd, start>>

\* impl Drop for Sender (send() borrows the Sender, so none is in progress).
\* The waker a finished send() left in Channel.senders belongs to no task any
\* more and waking it does nothing, so the table entry is forgotten with the
\* Sender and a later clone (a fresh Uuid) may take the slot.
SenderDrop(s) ==
    /\ fault = "none" /\ spc[s] = "idle"
    /\ live_senders' = DecrementSenders(live_senders)
    /\ spc' = [spc EXCEPT ![s] = "none"]
    /\ senders' = senders \ {s}
    /\ UNCHANGED <<qvars, hvars, bound, pvars, lvars, receivers, rpc, swoken, rwoken,
                   rval, recvd, start>>

\* Sender::subscribe -> Receiver::new: a fork of Channel.queue.
Subscribe(s, n) ==
    /\ fault = "none" /\ s \in LiveSenderIds
    /\ n \in RecvIds /\ hs[n].state = "free"
    /\ \A m \in RecvIds : m < n => hs[m].state # "free"
    /\ Commit(Fork(Q, 0, n))
    /\ rpc' = [rpc EXCEPT ![n] = "idle"]
    /\ start' = [start EXCEPT ![n] = npush]
    /\ parent' = [parent EXCEPT ![n] = 0]
    /\ UNCHANGED <<npush, view, got, forked, bound, pvars, lvars, live_senders, senders,
                   receivers, spc, swoken, rwoken, rval, recvd>>

\* One poll of Receiver::get_something_to_receive up to its branch.  With
\* size() > 0 the waker is removed and recv() goes on to front(); with
\* size() == 0 the poll has yet to take the channel lock.
RecvPoll(r) ==
    /\ rwoken' = [rwoken EXCEPT ![r] = FALSE]
    /\ IF Size(Q, r) > 0
       THEN /\ receivers' = receivers \ {r}
            /\ Commit(Front(Q, r).q)
            /\ rval' = [rval EXCEPT ![r] = Front(Q, r).ret]
            /\ rpc' = [rpc EXCEPT ![r] = "fronted"]
       ELSE /\ rpc' = [rpc EXCEPT ![r] = "gap"]
            /\ UNCHANGED <<blocks, core, hs, fault, receivers, rval>>
    /\ UNCHANGED <<hvars, bound, pvars, lvars, live_senders, senders, spc, swoken, recvd,
                   start>>

\* receiver.recv() is called: the first poll.
RecvStart(r) ==
    /\ fault = "none" /\ rpc[r] = "idle"
    /\ RecvPoll(r)

\* The suspended recv() is polled again after a wake.
RecvRepoll(r) ==
    /\ fault = "none" /\ rpc[r] = "waiting" /\ rwoken[r]
    /\ RecvPoll(r)

\* The size() == 0 branch of the poll, under the channel lock: end of stream
\* with no live sender, else register the waker, wake the senders, Pending.
RecvRegisterBody(r) ==
    IF live_senders = 0
    THEN /\ rpc' = [rpc EXCEPT ![r] = "idle"]
         /\ UNCHANGED <<receivers, swoken>>
    ELSE /\ receivers' = receivers \cup {r}
         /\ swoken' = Wake(swoken, senders, spc)
         /\ rpc' = [rpc EXCEPT ![r] = "waiting"]

RecvRegister(r) ==
    /\ fault = "none" /\ rpc[r] = "gap"
    /\ RecvRegisterBody(r)
    /\ UNCHANGED <<qvars, hvars, bound, pvars, lvars, live_senders, senders, spc, rwoken, rval,
                   recvd, start>>

\* The rest of Receiver::recv: pop_front, wake the senders, return the clone.
RecvPop(r) ==
    /\ fault = "none" /\ rpc[r] = "fronted"
    /\ Commit(PopFront(Q, r))
    /\ swoken' = Wake(swoken, senders, spc)
    /\ recvd' = [recvd EXCEPT ![r] = Append(@, rval[r])]
    /\ view' = [view EXCEPT ![r] = IF @ = <<>> THEN @ ELSE Tail(@)]
    /\ rval' = [rval EXCEPT ![r] = None]
    /\ rpc' = [rpc EXCEPT ![r] = "idle"]
    /\ UNCHANGED <<npush, got, parent, forked, bound, pvars, lvars, live_senders, senders,
                   receivers, spc, rwoken, start>>

\* The Receiver is released between recv() calls: its fork is dropped, in the
\* steps of impl Drop for MultiQueue.
RecvDropPopAll(r) ==
    /\ fault = "none" /\ rpc[r] = "idle"
    /\ Commit(DropPopAll(Q, r))
    /\ rpc' = [rpc EXCEPT ![r] = "gone"]
    /\ recvd' = [recvd EXCEPT ![r] = <<>>]
    /\ start' = [start EXCEPT ![r] = 0]
    /\ view' = [view EXCEPT ![r] = <<>>]
    /\ UNCHANGED <<npush, got, parent, forked, bound, pvars, lvars, live_senders, senders,
                   receivers, spc, swoken, rwoken, rval>>

RecvDropRead(r) ==
    /\ fault = "none" /\ rpc[r] = "gone" /\ hs[r].state = "popped"
    /\ Commit(DropRead(Q, r))
    /\ UNCHANGED <<hvars, chvars, pvars, lvars>>

RecvDropFinish(r) ==
    /\ fault = "none" /\ rpc[r] = "gone" /\ hs[r].state = "latched"
    /\ \E landed \in Landings(r) : Commit(DropFinish(Q, r, landed))
    /\ UNCHANGED <<hvars, chvars, pvars, lvars>>

\* One Sender and the receivers it subscribes: send(), recv(), subscribe().
NextOrd ==
    \/ \E s \in SenderIds : SendStart(s)
    \/ \E s \in SenderIds : SendRepoll(s)
    \/ \E s \in SenderIds : SendPush(s)
    \/ \E s \in SenderIds, n \in RecvIds : Subscribe(s, n)
    \/ \E r \in RecvIds : RecvStart(r)
    \/ \E r \in RecvIds : RecvRepoll(r)
    \/ \E r \in RecvIds : RecvRegister(r)
    \/ \E r \in RecvIds : RecvPop(r)

SpecOrd == InitCh /\ [][NextOrd]_vars

\* Senders cloned and released between sends, and the one Receiver the
\* channel was made with.
NextSnd ==
    \/ \E s \in SenderIds : SendStart(s)
    \/ \E s \in SenderIds : SendRepoll(s)
    \/ \E s \in SenderIds : SendPush(s)
    \/ \E s, n \in SenderIds : SenderClone(s, n)
    \/ \E s \in SenderIds : SenderDrop(s)
    \/ \E r \in RecvIds : RecvStart(r)
    \/ \E r \in RecvIds : RecvRepoll(r)
    \/ \E r \in RecvIds : RecvRegister(r)
    \/ \E r \in RecvIds : RecvPop(r)

SpecSnd == InitCh /\ [][NextSnd]_vars

\* The task that awaits send() or recv() is woken by something other than the
\* channel (another future it is polled with, a timer): its poll_fn closure is
\* called again with nothing changed.
SendWokenElsewhere(s) ==
    /\ fault = "none" /\ spc[s] = "waiting" /\ ~swoken[s]
    /\ swoken' = [swoken EXCEPT ![s] = TRUE]
    /\ UNCHANGED <<qvars, hvars, bound, pvars, lvars, live_senders, senders, receivers,
                   spc, rpc, rwoken, rval, recvd, start>>

RecvWokenElsewhere(r) ==
    /\ fault = "none" /\ rpc[r] = "waiting" /\ ~rwoken[r]
    /\ rwoken' = [rwoken EXCEPT ![r] = TRUE]
    /\ UNCHANGED <<qvars, hvars, bound, pvars, lvars, live_senders, senders, receivers,
                   spc, rpc, swoken, rval, recvd, start>>

NextWake ==
    \/ NextOrd
    \/ \E s \in SenderIds : SendWokenElsewhere(s)
    \/ \E r \in RecvIds : RecvWokenElsewhere(r)

SpecWake == InitCh /\ [][NextWake]_vars

\* The channel while no Receiver is released.
NextChNR ==
    \/ \E s \in SenderIds : SendStart(s)
    \/ \E s \in SenderIds : SendRepoll(s)
    \/ \E s \in SenderIds : SendPush(s)
    \/ \E s, n \in SenderIds : SenderClone(s, n)
    \/ \E s \in SenderIds : SenderDrop(s)
    \/ \E s \in SenderIds, n \in RecvIds : Subscribe(s, n)
    \/ \E r \in RecvIds : RecvStart(r)
    \/ \E r \in RecvIds : RecvRepoll(r)
    \/ \E r \in RecvIds : RecvRegister(r)
    \/ \E r \in RecvIds : RecvPop(r)

SpecChNR == InitCh /\ [][NextChNR]_vars

\* The executor polls a task that has been woken, and a thread that is between
\* two lock sections of a poll or of send()/recv() goes on to the next one.
\* Nothing obliges a caller to start a send() or a recv(), to clone, subscribe
\* or release.
FairSpecChNR ==
    /\ SpecChNR
    /\ \A s \in SenderIds : WF_vars(SendRepoll(s)) /\ WF_vars(SendPush(s))
    /\ \A r \in RecvIds :
          WF_vars(RecvRepoll(r)) /\ WF_vars(RecvRegister(r)) /\ WF_vars(RecvPop(r))

NextCh ==
    \/ NextChNR
    \/ \E r \in RecvIds : RecvDropPopAll(r)
    \/ \E r \in RecvIds : RecvDropRead(r)
    \/ \E r \in RecvIds : RecvDropFinish(r)

SpecCh == InitCh /\ [][NextCh]_vars

\* One Sender, the Receivers it subscribes and their release.
NextRcv ==
    \/ NextOrd
    \/ \E r \in RecvIds : RecvDropPopAll(r)
    \/ \E r \in RecvIds : RecvDropRead(r)
    \/ \E r \in RecvIds : RecvDropFinish(r)

SpecRcv == InitCh /\ [][NextRcv]_vars

\* SpecRcv in which every live Receiver keeps calling recv() and a release that
\* has begun runs to its end.
ReceiverTask(r) ==
    \/ RecvStart(r) \/ RecvRepoll(r) \/ RecvRegister(r) \/ RecvPop(r)
    \/ RecvDropRead(r) \/ RecvDropFinish(r)

\* The one Sender of SpecRcv is either suspended or about to push, so the
\* behaviours in which its send() stays suspended are the same with and
\* without a condition on SendPush.
FairSpecRcv ==
    /\ SpecRcv
    /\ \A s \in SenderIds : WF_vars(SendRepoll(s))
    /\ \A r \in RecvIds : WF_vars(ReceiverTask(r))

\* ------------------------------------------------------- the thread pool
\* A tokio task is cancelled by abort() when it is suspended, or as soon as it
\* suspends: a task that is running when abort() is called runs on until its
\* next .await that has to wait.  "wait_*" / "wait" are the suspended places.

\* The scheduler task is over (it returned, or was cancelled): job_receiver and
\* idle_receiver are dropped.
SchedGone ==
    sched.pc = "returned" \/ (sched.aborted /\ sched.pc \in {"wait_job", "wait_idle"})

\* The task of worker w is over: its job_receiver is dropped.
WorkerGone(w) ==
    \/ worker[w].pc \in {"exited", "cancelled"}
    \/ worker[w].aborted /\ worker[w].pc = "wait"

\* A scheduler that adds a worker while current_workers <= max_workers.
AddWorkerAtMax(m) == m.current_workers <= m.max_workers

\* The scheduler may add a worker: current_workers < max_workers.
MayAddWorker(m) == m.current_workers < m.max_workers

\* A loop over the job list that steps over a task.
SkipTask(k) == k + 2

\* A scheduler that counts the new worker without putting it in the map.
CountWorkerOnly(m, id) ==
    [m EXCEPT !.next_worker_id = @ + 1, !.current_workers = @ + 1]

\* workers.insert(next_worker_id, worker); next_worker_id += 1;
\* current_workers += 1.
InsertWorker(m, id) ==
    [m EXCEPT !.workers = @ \cup {id},
              !.next_worker_id = @ + 1,
              !.current_workers = @ + 1]

\* A worker that reports idle twice.
SendIdleTwice(ch, w) == Append(Append(ch, w), w)

\* worker_idle_sender.send(worker_id)
SendIdle(ch, w) == Append(ch, w)

\* A worker that awaits the task and ignores its result.
ErrIgnored(jb, k) == FALSE

\* task.await? is Err: task k of the job is its failing task.
TaskErr(jb, k) == jb.bad = k

\* for task in job.job_list: the task after task k.
NextTask(k) == k + 1

\* let pool = ThreadPool::new(max_workers): the scheduler is spawned.
InitPool ==
    /\ InitQueue
    /\ core = NewCore
    /\ hs = [h \in Handles |-> NoHandle]
    /\ forked = FALSE
    /\ IdleChannel
    /\ \E max_workers \in 0 .. MaxWorkers : wm = NewWorkerManager(max_workers)
    /\ job_channel = <<>> /\ idle_channel = <<>>
    /\ inbox = [w \in WorkerIds |-> <<>>]
    /\ sched = [pc |-> "wait_job", job |-> NoJob, aborted |-> FALSE]
    /\ worker = [w \in WorkerIds |-> NoWorkerTask]
    /\ job = [j \in JobIds |-> NoThreadJob]
    /\ pstop = "no"

\* pool.add_job(job), the job built with n tasks of which task bad fails
\* (bad = 0: none does).  The send fails once the scheduler is gone.
PoolAddJob(n, bad) ==
    /\ pstop \in {"no", "done"}
    /\ \E j \in JobIds :
          /\ job[j].st = "new" /\ \A i \in JobIds : i < j => job[i].st # "new"
          /\ job' = [job EXCEPT ![j] = [@ EXCEPT !.tasks = n, !.bad = bad,
                        !.st = IF SchedGone THEN "refused" ELSE "queued"]]
          /\ job_channel' = IF SchedGone THEN job_channel ELSE Append(job_channel, j)
    /\ UNCHANGED <<qvars, hvars, chvars, lvars, wm, idle_channel, inbox, sched, worker, pstop>>

\* scheduler: job_receiver.recv().await returns a job.
SchedRecvJob ==
    /\ sched.pc \in {"recv_job", "wait_job"} /\ ~SchedGone
    /\ job_channel # <<>>
    /\ sched' = [sched EXCEPT !.pc = "try_idle", !.job = Head(job_channel)]
    /\ job_channel' = Tail(job_channel)
    /\ job' = [job EXCEPT ![Head(job_channel)].st = "held"]
    /\ UNCHANGED <<qvars, hvars, chvars, lvars, wm, idle_channel, inbox, worker, pstop>>

\* scheduler: job_receiver.recv().await has to wait.
SchedParkJob ==
    /\ sched.pc = "recv_job" /\ job_channel = <<>> /\ pstop # "dropped"
    /\ sched' = [sched EXCEPT !.pc = "wait_job"]
    /\ UNCHANGED <<qvars, hvars, chvars, lvars, wm, job_channel, idle_channel, inbox, worker,
                   job, pstop>>

\* scheduler: look the idle worker up and worker.add_job(job)?.  A worker that
\* is not in the map: the job is dropped.  A worker whose task is over: the send
\* fails and the scheduler returns the error.
HandOff(w) ==
    LET j == sched.job
    IN  IF w \notin wm.workers
        THEN /\ job' = [job EXCEPT ![j].st = "dropped"]
             /\ sched' = [sched EXCEPT !.pc = "recv_job", !.job = NoJob]
             /\ UNCHANGED inbox
        ELSE IF WorkerGone(w)
        THEN /\ job' = [job EXCEPT ![j].st = "lost"]
             /\ sched' = [sched EXCEPT !.pc = "returned", !.job = NoJob]
             /\ UNCHANGED inbox
        ELSE /\ job' = [job EXCEPT ![j].st = "inbox", ![j].handed = @ + 1]
             /\ sched' = [sched EXCEPT !.pc = "recv_job", !.job = NoJob]
             /\ inbox' = [inbox EXCEPT ![w] = Append(@, j)]

\* scheduler: idle_receiver.try_recv() is Ok(idle_worker).
SchedTryIdleOk ==
    /\ sched.pc = "try_idle" /\ idle_channel # <<>>
    /\ HandOff(Head(idle_channel))
    /\ idle_channel' = Tail(idle_channel)
    /\ UNCHANGED <<qvars, hvars, chvars, lvars, wm, job_channel, worker, pstop>>

\* scheduler: try_recv() is Empty.  Below max_workers it makes a worker:
\* Worker::new spawns the worker task and sends the initial idle message.
SchedTryIdleEmpty ==
    /\ sched.pc = "try_idle" /\ idle_channel = <<>>
    /\ IF MayAddWorker(wm)
       THEN /\ worker' = [worker EXCEPT ![wm.next_worker_id] =
                              [pc |-> "wait", job |-> NoJob, k |-> 0, aborted |-> FALSE]]
            /\ idle_channel' = Append(idle_channel, wm.next_worker_id)
            /\ sched' = [sched EXCEPT !.pc = "register"]
       ELSE /\ sched' = [sched EXCEPT !.pc = "recv_idle"]
            /\ UNCHANGED <<worker, idle_channel>>
    /\ UNCHANGED <<qvars, hvars, chvars, lvars, wm, job_channel, inbox, job, pstop>>

\* scheduler: workers.insert(next_worker_id, worker); next_worker_id += 1;
\* current_workers += 1.
SchedRegister ==
    /\ sched.pc = "register"
    /\ wm' = InsertWorker(wm, wm.next_worker_id)
    /\ sched' = [sched EXCEPT !.pc = "recv_idle"]
    /\ UNCHANGED <<qvars, hvars, chvars, lvars, job_channel, idle_channel, inbox, worker, job,
                   pstop>>

\* scheduler: idle_receiver.recv().await returns an idle worker.
SchedRecvIdle ==
    /\ sched.pc \in {"recv_idle", "wait_idle"} /\ ~SchedGone
    /\ idle_channel # <<>>
    /\ HandOff(Head(idle_channel))
    /\ idle_channel' = Tail(idle_channel)
    /\ UNCHANGED <<qvars, hvars, chvars, lvars, wm, job_channel, worker, pstop>>

\* scheduler: idle_receiver.recv().await has to wait.
SchedParkIdle ==
    /\ sched.pc = "recv_idle" /\ idle_channel = <<>>
    /\ sched' = [sched EXCEPT !.pc = "wait_idle"]
    /\ UNCHANGED <<qvars, hvars, chvars, lvars, wm, job_channel, idle_channel, inbox, worker,
                   job, pstop>>

\* Worker w takes job j and starts its first task.
StartJob(w, j) ==
    /\ worker' = [worker EXCEPT ![w].pc = "task", ![w].job = j, ![w].k = 1]
    /\ job' = [job EXCEPT ![j].st = "running", ![j].on = @ \cup {w},
                          ![j].begun = Append(@, 1),
                          ![j].late = (pstop = "done")]

\* worker: job_receiver.recv().await returns a job.
WorkerRecv(w) ==
    /\ worker[w].pc \in {"recv", "wait"} /\ ~WorkerGone(w)
    /\ inbox[w] # <<>>
    /\ StartJob(w, Head(inbox[w]))
    /\ inbox' = [inbox EXCEPT ![w] = Tail(@)]
    /\ UNCHANGED <<qvars, hvars, chvars, lvars, wm, job_channel, idle_channel, sched, pstop>>

\* worker: job_receiver.recv().await has to wait.
WorkerPark(w) ==
    /\ worker[w].pc = "recv" /\ inbox[w] = <<>>
    /\ worker' = [worker EXCEPT ![w].pc = "wait"]
    /\ UNCHANGED <<qvars, hvars, chvars, lvars, wm, job_channel, idle_channel, inbox, sched,
                   job, pstop>>

\* worker: task.await? is Ok and the job has a next task, which starts.
TaskOk(w) ==
    LET j == worker[w].job
        k == worker[w].k
    IN  /\ worker[w].pc = "task" /\ ~TaskErr(job[j], k) /\ k < job[j].tasks
        /\ worker' = [worker EXCEPT ![w].k = NextTask(k)]
        /\ job' = [job EXCEPT ![j].ended = Append(@, k),
                              ![j].begun = Append(@, NextTask(k))]
        /\ UNCHANGED <<qvars, hvars, chvars, lvars, wm, job_channel, idle_channel, inbox, sched,
                       pstop>>

\* worker: task.await? is Err: the worker task returns the error.
TaskFail(w) ==
    LET j == worker[w].job
    IN  /\ worker[w].pc = "task" /\ TaskErr(job[j], worker[w].k)
        /\ worker' = [worker EXCEPT ![w].pc = "exited", ![w].job = NoJob, ![w].k = 0]
        /\ job' = [job EXCEPT ![j].st = "failed"]
        /\ UNCHANGED <<qvars, hvars, chvars, lvars, wm, job_channel, idle_channel, inbox, sched,
                       pstop>>

\* worker: the last task is Ok; job_receiver.try_recv(): Ok(new_job) is run
\* next, Empty sends the worker's id on the idle channel (an error, the
\* scheduler gone, ends the worker task) and goes back to recv().
JobDone(w) ==
    LET j == worker[w].job
        k == worker[w].k
        d == [job EXCEPT ![j].ended = Append(@, k), ![j].st = "done"]
    IN  /\ worker[w].pc = "task" /\ ~TaskErr(job[j], k) /\ k >= job[j].tasks
        /\ IF inbox[w] # <<>>
           THEN /\ worker' = [worker EXCEPT ![w].job = Head(inbox[w]), ![w].k = 1]
                /\ job' = [d EXCEPT ![Head(inbox[w])].st = "running",
                                    ![Head(inbox[w])].on = @ \cup {w},
                                    ![Head(inbox[w])].begun = Append(@, 1),
                                    ![Head(inbox[w])].late = (pstop = "done")]
                /\ inbox' = [inbox EXCEPT ![w] = Tail(@)]
                /\ UNCHANGED idle_channel
           ELSE /\ worker' = [worker EXCEPT
                                  ![w].pc = IF SchedGone THEN "exited" ELSE "recv",
                                  ![w].job = NoJob, ![w].k = 0]
                /\ job' = d
                /\ idle_channel' = IF SchedGone THEN idle_channel
                                   ELSE SendIdle(idle_channel, w)
                /\ UNCHANGED inbox
        /\ UNCHANGED <<qvars, hvars, chvars, lvars, wm, job_channel, sched, pstop>>

\* worker: aborted while its task is suspended inside task.await.
WorkerCancelInTask(w) ==
    /\ worker[w].pc = "task" /\ worker[w].aborted
    /\ worker' = [worker EXCEPT ![w].pc = "cancelled"]
    /\ job' = [job EXCEPT ![worker[w].job].st = "cancelled"]
    /\ UNCHANGED <<qvars, hvars, chvars, lvars, wm, job_channel, idle_channel, inbox, sched,
                   pstop>>

\* pool.stop(), first statement: (self.stopper)() is scheduler.abort().
PoolStopSched ==
    /\ pstop = "no"
    /\ sched' = [sched EXCEPT !.aborted = TRUE]
    /\ pstop' = "aborting"
    /\ UNCHANGED <<qvars, hvars, chvars, lvars, wm, job_channel, idle_channel, inbox, worker,
                   job>>

\* pool.stop(), the loop: under one lock of the manager, worker.stop() for
\* every worker in the map.
PoolStopWorkers ==
    /\ pstop = "aborting"
    /\ worker' = [w \in WorkerIds |->
                     IF w \in wm.workers THEN [worker[w] EXCEPT !.aborted = TRUE]
                     ELSE worker[w]]
    /\ pstop' = "done"
    /\ UNCHANGED <<qvars, hvars, chvars, lvars, wm, job_channel, idle_channel, inbox, sched,
                   job>>

NextScheduler ==
    \/ SchedRecvJob
    \/ SchedParkJob
    \/ SchedTryIdleOk
    \/ SchedTryIdleEmpty
    \/ SchedRegister
    \/ SchedRecvIdle
    \/ SchedParkIdle

NextWorker(w) ==
    \/ WorkerRecv(w)
    \/ WorkerPark(w)
    \/ TaskOk(w)
    \/ TaskFail(w)
    \/ JobDone(w)

\* ------------------------------------------- a pool that is never stopped
NextPool ==
    \/ \E n \in 1 .. MaxTasks : \E bad \in 0 .. n : PoolAddJob(n, bad)
    \/ NextScheduler
    \/ \E w \in WorkerIds : NextWorker(w)

SpecPool == InitPool /\ [][NextPool]_vars

\* The tokio runtime polls every task that can run.
FairSpecPool ==
    /\ SpecPool
    /\ WF_vars(NextScheduler)
    /\ \A w \in WorkerIds : WF_vars(NextWorker(w))

\* ------------------------- never stopped, every job of MaxTasks tasks
NextLong ==
    \/ \E bad \in 0 .. MaxTasks : PoolAddJob(MaxTasks, bad)
    \/ NextScheduler
    \/ \E w \in WorkerIds : NextWorker(w)

SpecLong == InitPool /\ [][NextLong]_vars

\* ---------------------------------------------- a pool that may be stopped
NextPoolStop ==
    \/ NextPool
    \/ PoolStopSched
    \/ PoolStopWorkers
    \/ \E w \in WorkerIds : WorkerCancelInTask(w)

SpecPoolStop == InitPool /\ [][NextPoolStop]_vars

\* ------------------------------- a pool whose handle is dropped, not stopped
\* drop(pool) without stop(): ThreadPool has no Drop of its own, so its fields
\* are dropped.  job_sender was the only sender of the job channel, which is
\* now closed; the JoinHandle inside stopper is dropped, which detaches the
\* scheduler task and does not abort it; the scheduler keeps its clone of the
\* worker manager, and with it every Worker.job_sender.
PoolDrop ==
    /\ pstop = "no"
    /\ pstop' = "dropped"
    /\ UNCHANGED <<qvars, hvars, chvars, lvars, wm, job_channel, idle_channel, inbox, sched,
                   worker, job>>

\* scheduler: job_receiver.recv().await on the closed and drained channel is
\* None (the close wakes a suspended recv()).
SchedRecvNone ==
    /\ sched.pc \in {"recv_job", "wait_job"} /\ ~SchedGone
    /\ job_channel = <<>> /\ pstop = "dropped"
    /\ sched' = [sched EXCEPT !.pc = "none_job"]
    /\ UNCHANGED <<qvars, hvars, chvars, lvars, wm, job_channel, idle_channel, inbox, worker,
                   job, pstop>>

\* scheduler: `if let Some(job) = job` does not match and has no else: the
\* loop goes round to job_receiver.recv().await again.
SchedLoopAgain ==
    /\ sched.pc = "none_job"
    /\ sched' = [sched EXCEPT !.pc = "recv_job"]
    /\ UNCHANGED <<qvars, hvars, chvars, lvars, wm, job_channel, idle_channel, inbox, worker,
                   job, pstop>>

\* The scheduler task, the closed channel included.
SchedulerTask == NextScheduler \/ SchedRecvNone \/ SchedLoopAgain

NextPoolDrop ==
    \/ \E n \in 1 .. MaxTasks : \E bad \in 0 .. n : PoolAddJob(n, bad)
    \/ PoolDrop
    \/ SchedulerTask
    \/ \E w \in WorkerIds : NextWorker(w)

SpecPoolDrop == InitPool /\ [][NextPoolDrop]_vars

\* The tokio runtime polls every task that can run.
FairSpecPoolDrop ==
    /\ SpecPoolDrop
    /\ WF_vars(SchedulerTask)
    /\ \A w \in WorkerIds : WF_vars(NextWorker(w))

\* ======================================================================
\* Properties
\* ======================================================================
\* The sequence s + 1, s + 2, ..., s + n.
Run(s, n) == [i \in 1 .. n |-> s + i]

\* ------------------------------------------------------------------- C1
\* C1: whatever the interleaving of send(), recv() and subscribe(), the values
\* a receiver's recv() calls have returned are exactly the first values sent
\* after the receiver was created, in send order: none skipped, duplicated or
\* reordered (so a later subscriber sees a suffix of what an earlier one sees).
C1_RecvInSendOrder ==
    /\ fault = "none"
    /\ \A r \in RecvIds :
          /\ recvd[r] = Run(start[r], Len(recvd[r]))
          /\ start[r] + Len(recvd[r]) <= npush
          /\ rpc[r] = "fronted" => rval[r] = start[r] + Len(recvd[r]) + 1

\* Two receivers created at different times have both received, the later one
\* a suffix of what the earlier one has.
C1_Witness ==
    /\ recvd[1] = <<1, 2, 3>>
    /\ start[2] = 1 /\ recvd[2] = <<2, 3>>

\* ------------------------------------------------------------------- C6
\* C6: a receiver suspended in recv() does not stay suspended while its fork of
\* the backlog holds a value: it is resumed and returns it, even if no further
\* send() follows.
C6_NoLostWakeup ==
    \A r \in RecvIds :
        (rpc[r] = "waiting" /\ Size(Q, r) > 0) ~> (rpc[r] # "waiting")

\* ------------------------------------------------------------------- C7
\* C7: a receiver created by subscribe() after K sends have completed gets the
\* (K+1)-th sent value from its first recv() and never any of the first K,
\* wherever the other receivers stand when it subscribes.
C7_SubscriberStartsAfterK ==
    /\ fault = "none"
    /\ \A r \in RecvIds \ {1} :
          /\ recvd[r] # <<>> => recvd[r][1] = start[r] + 1
          /\ recvd[r] = <<>> /\ rpc[r] = "fronted" => rval[r] = start[r] + 1
          /\ \A i \in 1 .. Len(recvd[r]) : recvd[r][i] > start[r]

\* A subscriber created after two sends, of which the first receiver had taken
\* one, has received the third value.
C7_Witness ==
    /\ start[2] = 2 /\ recvd[2] = <<3>>
    /\ recvd[1] = <<1>>

\* ------------------------------------------------------------------- C8
\* C8: on a single handle that is never forked, the values front() shows before
\* each pop_front, followed by what the handle still holds, are the pushed
\* values in push order, also for values pushed after the handle had drained.
C8_SingleHandleFifo ==
    /\ fault = "none"
    /\ got \o Drain(Q, 0) = Run(0, npush)

\* The handle drained to empty (it is marked at the end of the queue), was
\* pushed to again and has shown and popped part of the refill.
C8_Witness ==
    /\ ~forked /\ got = <<1, 2, 3>> /\ npush = 4
    /\ hs[0].at_end_of_queue /\ Drain(Q, 0) = <<4>>

\* ------------------------------------------------------------------- C9
\* C9: with all forks (forks of forks included) made before the first push,
\* every handle is handed every pushed value in push order: at any point of any
\* interleaving of pushes, front() and pop_front(), what a handle has yet to
\* drain is the pushed values less the ones it has popped.
C9_ForksDrainAllPushes ==
    /\ fault = "none"
    /\ \A h \in Holding :
          /\ Drain(Q, h) = view[h]
          /\ Len(view[h]) <= npush
          /\ view[h] = Run(npush - Len(view[h]), Len(view[h]))

\* A fork and a fork of that fork, three pushes, and three handles at three
\* different positions.
C9_Witness ==
    /\ parent[1] = 0 /\ parent[2] = 1 /\ npush = 3
    /\ Drain(Q, 0) = <<1, 2, 3>> /\ Drain(Q, 1) = <<>> /\ Drain(Q, 2) = <<3>>

\* ------------------------------------------------------------------- C2
\* C2: in a bounded channel the number of sent values that some live receiver
\* has not received yet never exceeds the bound, for any number of sender
\* clones and receivers.
C2_OutstandingWithinBound ==
    bound # Unbounded => Outstanding <= bound


\* ------------------------------------------------------------------- C3
\* C3: in a bounded channel a poll of send() does not suspend while the number
\* of values some live receiver has yet to receive is below the bound.
C3_NoSuspendBelowBound ==
    [][\A s \in SenderIds :
          (SendStart(s) \/ SendRepoll(s)) /\ spc'[s] = "waiting"
              => Outstanding >= bound]_vars

\* ------------------------------------------------------------------- C4
\* C4: once the last Sender is released, a Receiver whose recv() is suspended
\* on an empty backlog is resumed and its recv() returns None.
C4_ClosedChannelEndsRecv ==
    \A r \in RecvIds :
        (live_senders = 0 /\ rpc[r] = "waiting" /\ Size(Q, r) = 0)
            ~> (rpc[r] = "idle")

\* ------------------------------------------------------------------- C5
\* C5: recv() returns None only when no Sender is live and the receiver has
\* received every value sent since it was created.
C5_NoneOnlyWhenDrained ==
    [][\A r \in RecvIds :
          rpc[r] = "gap" /\ rpc'[r] = "idle"
              => /\ live_senders = 0
                 /\ Size(Q, r) = 0
                 /\ start[r] + Len(recvd[r]) = npush]_vars

\* ------------------------------------------------------------------ C10
\* C10: a fork whose parent has been released reads exactly what was pending
\* for it when it was forked, then the later pushes, in order.
C10_ForkSurvivesParentRelease ==
    \A h \in Handles :
        hs[h].state = "live" /\ parent[h] # h /\ hs[parent[h]].state = "dead"
            /\ fault = "none"
        => Drain(Q, h) = view[h]

\* ------------------------------------------------------------------ C11
\* C11: no decrement is applied to a count of zero, and the reader count of
\* every block of the chain accounts for every live handle that has not yet
\* advanced past the block (here: is not below their number).
C11_CountCoversReaders ==
    /\ fault # "underflow"
    /\ \A p \in ChainSet(Q, core.head) :
          blocks[p].reference_count >=
              Cardinality({h \in Handles : hs[h].state = "live" /\ p \in Pending(Q, h)})

MaxOf(S) == CHOOSE m \in S : \A x \in S : x <= m

\* C13: shared_size() is the number of pushed items that at least one live
\* handle has not popped yet, that is, the largest size() over the live handles.
C13_SharedSizeIsLargestSize ==
    fault = "none" /\ (\E h \in Handles : hs[h].state = "live") =>
        SharedSize(Q) = MaxOf({Size(Q, h) : h \in {x \in Handles : hs[x].state = "live"}})

\* ------------------------------------------------------------------ C14
\* C14: when every live handle has drained (size() = 0), shared_size()
\* returns 0, also after some of the handles have been released.
C14_DrainedMeansSharedSizeZero ==
    /\ fault = "none"
    /\ \E h \in Handles : hs[h].state = "live"
    /\ \A h \in Handles : hs[h].state = "live" => Size(Q, h) = 0
    => SharedSize(Q) = 0

\* ------------------------------------------------------------------ C15
\* The queue as the step leaves it.
QPost == [blocks |-> blocks', core |-> core', hs |-> hs', fault |-> fault']

\* C15: right after n = h.fork(), size() and front() of the new handle are
\* those of the parent, wherever the parent stands (never read, inside the
\* chain, at the end with or without newer items).
C15_ForkSeesWhatParentSees ==
    [][\A h, n \in Handles :
          MQFork(h, n) /\ fault' = "none" =>
              /\ Size(QPost, n) = Size(QPost, h)
              /\ Front(QPost, n).ret = Front(QPost, h).ret]_vars

\* A handle forked from a parent that has popped 1 and rests at the end of the
\* queue with a newer item behind it: both see that item and not 1.
C15_Witness ==
    \E h, n \in Handles :
        /\ fault = "none" /\ n # h /\ parent[n] = h
        /\ hs[h].state = "live" /\ hs[n].state = "live"
        /\ hs[h].at_end_of_queue /\ hs[n] = hs[h]
        /\ Size(Q, h) = 1 /\ Size(Q, n) = 1
        /\ Front(Q, h).ret = 2 /\ Front(Q, n).ret = 2

\* ------------------------------------------------------------------ C16
\* C16: a push_back through any handle raises size() of every live handle by
\* exactly one, and the pushed value is the last one each of them will drain.
C16_PushReachesEveryHandle ==
    [][\A h \in Handles :
          MQPushBack(h) /\ fault' = "none" =>
              \A x \in Handles : hs[x].state = "live" =>
                  /\ Size(QPost, x) = Size(Q, x) + 1
                  /\ Drain(QPost, x) # <<>>
                  /\ Drain(QPost, x)[Len(Drain(QPost, x))] = npush + 1]_vars

\* ------------------------------------------------------------------ C17
\* C17: front, pop_front, pop_all and the release of one handle change neither
\* size() nor the sequence still to be drained of any other live handle.
C17_ReadsLeaveOtherHandlesAlone ==
    [][\A h \in Handles :
          (MQFront(h) \/ MQPopFront(h) \/ MQPopAll(h) \/ MQDrop(h)) /\ fault' = "none" =>
              \A x \in Handles \ {h} : hs[x].state = "live" =>
                  /\ Size(QPost, x) = Size(Q, x)
                  /\ Drain(QPost, x) = Drain(Q, x)]_vars

\* ------------------------------------------------------------------ C18
\* C18: iter() on a handle yields exactly its size() remaining items, in the
\* order front()/pop_front() would hand them out.
C18_IterYieldsRemainingItems ==
    fault = "none" =>
        \A h \in Handles : hs[h].state = "live" =>
            /\ Len(Iter(Q, h)) = Size(Q, h)
            /\ Iter(Q, h) = Drain(Q, h)

\* ------------------------------------------------------------------ C19
\* C19: the release of a handle runs without fault, and once every handle has
\* been released every pushed value has been dropped (its block given back),
\* whatever forks were taken and in whatever order the handles go.
C19_ReleaseDropsEveryValue ==
    [][\A h \in Handles :
          MQDrop(h) =>
              /\ fault' = "none"
              /\ (\A x \in Handles : hs'[x].state # "live") =>
                     \A p \in 1 .. Len(blocks') : ~blocks'[p].allocated]_vars

\* ------------------------------------------------------------------ C20
\* The values of a sequence, as a set.
Range(s) == {s[i] : i \in 1 .. Len(s)}

\* C20: a value that every live receiver has received is no longer held by the
\* channel: once the last recv() of it has returned, no block holds it.
C20_ReceivedValueIsReleased ==
    fault = "none" =>
        \A p \in 1 .. Len(blocks) :
            /\ blocks[p].allocated
            /\ \E r \in LiveRecvIds : blocks[p].object \in Range(recvd[r])
            => \E r \in LiveRecvIds : blocks[p].object \in Range(view[r])

\* ------------------------------------------------------------------ C21
\* The workers that exist, and the jobs a worker is running.
WorkersMade == {w \in WorkerIds : worker[w].pc # "absent"}
JobsRunning == {j \in JobIds : job[j].st = "running"}

\* C21: a pool with max_workers = W never has more than W workers and never
\* runs more than W jobs at the same time, however many jobs are submitted.
C21_AtMostMaxWorkers ==
    /\ Cardinality(WorkersMade) <= wm.max_workers
    /\ Cardinality(JobsRunning) <= wm.max_workers
    /\ wm.current_workers <= wm.max_workers

\* Three jobs submitted to a pool of two workers: two are running, the third
\* waits.
C21_Witness ==
    /\ wm.max_workers = 2 /\ Cardinality(WorkersMade) = 2
    /\ Cardinality(JobsRunning) = 2
    /\ \E j \in JobIds : job[j].st \in {"queued", "held"}

\* ------------------------------------------------------------------ C22
\* C22: the tasks of a job run on one worker, in the order of add_task: task
\* k + 1 has started only if task k has completed, and no two tasks of the job
\* are in progress together.
C22_TasksInOrderOnOneWorker ==
    \A j \in JobIds :
        /\ job[j].begun = Run(0, Len(job[j].begun))
        /\ job[j].ended = Run(0, Len(job[j].ended))
        /\ Len(job[j].ended) <= Len(job[j].begun)
        /\ Len(job[j].begun) <= Len(job[j].ended) + 1
        /\ Len(job[j].begun) <= job[j].tasks
        /\ Cardinality(job[j].on) <= 1

\* The second task of a job is in progress on the worker that completed the
\* first, while another worker runs another job.
C22_Witness ==
    \E j \in JobIds : \E w \in WorkerIds :
        /\ job[j].begun = <<1, 2>> /\ job[j].ended = <<1>> /\ job[j].on = {w}
        /\ worker[w].pc = "task" /\ worker[w].job = j /\ worker[w].k = 2
        /\ \E v \in WorkerIds \ {w} : worker[v].pc = "task"

\* ------------------------------------------------------------------ C23
\* C23: in a pool with max_workers >= 1 that is not stopped, a submitted job
\* none of whose tasks fails is eventually run to completion, given fair
\* scheduling of the scheduler and worker tasks.
C23_GoodJobEventuallyDone ==
    \A j \in JobIds :
        (job[j].st = "queued" /\ job[j].bad = 0 /\ wm.max_workers >= 1)
            ~> (job[j].st = "done")

\* ------------------------------------------------------------------ C24
\* C24: a job is handed to at most one worker and started at most once, and a
\* pool that is not stopped never drops one: every idle message the scheduler
\* can consume names a worker in the map, so no job reaches the branch
\* "could not find worker, dropping job".
C24_JobHandedOnceNeverDropped ==
    /\ \A j \in JobIds :
          /\ job[j].handed <= 1
          /\ Cardinality({i \in 1 .. Len(job[j].begun) : job[j].begun[i] = 1}) <= 1
          /\ job[j].st \notin {"dropped", "lost"}
          /\ job[j].st \in {"inbox", "running", "done", "failed"} => job[j].handed = 1
    /\ sched.pc # "register" =>
          \A i \in 1 .. Len(idle_channel) : idle_channel[i] \in wm.workers

\* A worker has completed one job, reported idle, and been handed another.
C24_Witness ==
    \E a, b \in JobIds : \E w \in WorkerIds :
        /\ a # b /\ job[a].st = "done" /\ job[a].on = {w} /\ job[a].handed = 1
        /\ job[b].st = "running" /\ job[b].on = {w} /\ job[b].handed = 1

\* ------------------------------------------------------------------ C25
\* The idle messages of worker w that the scheduler has not consumed yet.
IdleMessages(w) == Cardinality({i \in 1 .. Len(idle_channel) : idle_channel[i] = w})

\* C25: for every worker, its unconsumed idle messages plus the jobs it is
\* running or has in its inbox number at most one, so a worker is handed a job
\* only when idle and its inbox never receives a job while it runs another.
C25_JobsOnlyToIdleWorkers ==
    \A w \in WorkerIds :
        /\ IdleMessages(w) + Len(inbox[w]) + (IF worker[w].pc = "task" THEN 1 ELSE 0) <= 1
        /\ worker[w].pc = "task" => inbox[w] = <<>>

\* A worker that has run a job has a new one in its inbox, and the other
\* worker's idle message waits in the channel.
C25_Witness ==
    \E w, v \in WorkerIds : \E a \in JobIds :
        /\ w # v /\ job[a].st = "done" /\ job[a].on = {w}
        /\ Len(inbox[w]) = 1 /\ IdleMessages(w) = 0
        /\ IdleMessages(v) = 1 /\ inbox[v] = <<>>

\* ------------------------------------------------------------------ C26
\* The jobs the pool still holds somewhere: in a channel, in the scheduler's
\* hands, or being run.
JobsInPool ==
    Range(job_channel) \cup {sched.job}
        \cup UNION {Range(inbox[w]) \cup {worker[w].job} : w \in WorkerIds}

\* C26: when task k of a job fails, no later task of the job is ever started,
\* and the failed job is neither retried nor queued again.
C26_FailureEndsTheJob ==
    \A j \in JobIds :
        /\ job[j].bad # 0 => Len(job[j].begun) <= job[j].bad
        /\ job[j].st = "failed" =>
              /\ job[j].begun = Run(0, job[j].bad)
              /\ job[j].ended = Run(0, job[j].bad - 1)
              /\ job[j].handed = 1
              /\ j \notin JobsInPool

\* A job of two tasks has failed in its first task; its second task was never
\* started, and a job submitted after it has been run by another worker.
C26_Witness ==
    \E a, b \in JobIds :
        /\ a < b /\ job[a].st = "failed" /\ job[a].tasks = 2 /\ job[a].bad = 1
        /\ job[a].begun = <<1>> /\ job[a].ended = <<>>
        /\ job[b].st = "done"

\* ------------------------------------------------------------------ C27
\* C27: a worker leaves the Idle/Busy cycle only when the pool is shut down:
\* whatever the outcome of the tasks of a job, the worker task goes on and
\* reports idle again.
C27_WorkerEndsOnlyOnShutdown ==
    \A w \in WorkerIds :
        worker[w].pc \in {"exited", "cancelled"} => pstop # "no"

\* ------------------------------------------------------------------ C28
\* C28: once stop() has returned, every worker the pool has created is
\* cancelled and no job is started any more, however stop() interleaves with
\* the scheduler creating and registering a worker.
C28_StopCancelsEverything ==
    pstop = "done" =>
        /\ \A w \in WorkerIds :
              worker[w].pc \notin {"absent", "exited", "cancelled"} => worker[w].aborted
        /\ \A j \in JobIds : ~job[j].late

\* ------------------------------------------------------------------ C29
\* C29: the channel's live-sender count is the number of live Sender handles
\* (1 after construction, one more per clone, one less per release), and once
\* it is zero it stays zero.
C29_LiveSendersCountsSenders ==
    /\ [](live_senders = Cardinality(LiveSenderIds))
    /\ [][live_senders = 0 => live_senders' = 0]_vars

\* A clone was made and the first Sender released: one Sender is live, and it
\* is not the one the channel was made with.
C29_Witness ==
    /\ live_senders = 1 /\ LiveSenderIds = {2} /\ npush > 0

\* C30: a push_back that cannot take the lock on the Core returns Push(v) with
\* the value v it was given, a fork that cannot take it returns Fork and makes
\* no handle; both leave the chain, the count of every block,
\* core.reference_count and core.count_at_end_of_queue as they found them.
C30_FailedLockChangesNothing ==
    [][\A h \in Handles :
          /\ MQPushBackPoisoned(h) =>
                /\ result' = <<"Push", npush + 1>>
                /\ QPost = Q
          /\ \A n \in Handles :
                MQForkPoisoned(h, n) =>
                    /\ result' = <<"Fork">>
                    /\ QPost = Q
                    /\ hs'[n].state \in {"free", "dead"}]_vars

C30_Witness ==
    /\ poisoned /\ fault = "none"
    /\ result = <<"Push", npush + 1>>
    /\ Len(blocks) > 0
    /\ \E h \in Handles : hs[h].state = "live"

\* C31: every read-modify-write of a block's reference_count is made under the
\* lock on the Core, the one of a handle's release included, so that no update
\* is lost: the release of a handle leaves the count of its head block exactly
\* one below what it was when the release wrote it, whatever the other handles
\* did meanwhile.
C31_ReleaseLosesNoCountUpdate ==
    [][\A h \in Handles :
          (MQDropFinish(h) /\ hs[h].head # NULL /\ fault' = "none") =>
              blocks'[hs[h].head].reference_count
                  = blocks[hs[h].head].reference_count - 1]_vars

\* C32: core.count_at_end_of_queue is the number of live handles whose
\* at_end_of_queue flag is set, and so is never above core.reference_count; a
\* released handle that stood at the end no longer counts.  The Core is looked
\* at while a handle still holds it.
C32_AtEndCountsLiveHandlesAtEnd ==
    (fault = "none" /\ \E h \in Handles : hs[h].state = "live") =>
        /\ core.count_at_end_of_queue
              = Cardinality({h \in Handles :
                               hs[h].state = "live" /\ hs[h].at_end_of_queue})
        /\ core.count_at_end_of_queue <= core.reference_count

\* C33: in a bounded channel with a live Receiver, every live Receiver calling
\* recv() again and again, a send() that has been called completes, whatever
\* subscribe() calls and Receiver releases came before: a send() does not stay
\* suspended while every live Receiver has received every value sent.
C33_SendCompletes ==
    \A s \in SenderIds :
        (/\ bound # Unbounded /\ spc[s] = "waiting"
         /\ LiveRecvIds # {} /\ \A r \in LiveRecvIds : view[r] = <<>>)
            ~> (spc[s] # "waiting" \/ LiveRecvIds = {})

\* The counts of the blocks from p to the end of the chain never fall.
RECURSIVE CountsRise(_, _)
CountsRise(q, p) ==
    IF p = NULL \/ q.blocks[p].next = NULL THEN TRUE
    ELSE /\ q.blocks[p].reference_count <= q.blocks[q.blocks[p].next].reference_count
         /\ CountsRise(q, q.blocks[p].next)

\* C34: along the chain, from core.head to the tail, the reference counts of the
\* blocks never fall, so that a block of count 0 never follows a block of
\* count above 0 and Core::update only ever frees a prefix of the chain.
C34_CountsRiseAlongChain ==
    fault = "none" => CountsRise(Q, core.head)

\* C35: for every handle the three observations of emptiness agree: empty()
\* is true exactly when size() is 0, exactly when front() returns None.
C35_EmptinessAgrees ==
    \A h \in Handles :
        (fault = "none" /\ hs[h].state = "live" /\ Front(Q, h).q.fault = "none") =>
            /\ Empty(Q, h) <=> (Size(Q, h) = 0)
            /\ (Size(Q, h) = 0) <=> (Front(Q, h).ret = None)

\* C36: front() (and front_mut()) does not advance the handle: a call leaves
\* the size() of the handle and the value its front() returns, shared_size(),
\* and the size() and front() of every other handle as they were, also when the
\* call steps the handle off a last block it had already consumed.
C36_FrontAdvancesNothing ==
    [][\A h \in Handles :
          (MQFront(h) /\ fault' = "none") =>
              /\ Size(QPost, h) = Size(Q, h)
              /\ Front(QPost, h).ret = Front(Q, h).ret
              /\ SharedSize(QPost) = SharedSize(Q)
              /\ \A g \in Handles \ {h} :
                    hs[g].state = "live" =>
                        /\ Size(QPost, g) = Size(Q, g)
                        /\ Front(QPost, g).ret = Front(Q, g).ret]_vars

\* C37: a suspended send() or recv() that is polled again while its condition
\* still does not hold registers its waker again and stays suspended: the poll
\* pushes, pops and returns nothing.  A suspended send() goes on to push only
\* from a poll that found shared_size() below the bound, and a recv() returns
\* None only with no Sender left.
C37_WakeAloneDoesNothing ==
    [][/\ \A s \in SenderIds :
             /\ (SendRepoll(s) /\ bound # Unbounded /\ SharedSize(Q) >= bound) =>
                   /\ spc'[s] = "waiting" /\ s \in senders' /\ ~swoken'[s]
                   /\ npush' = npush /\ QPost = Q
             /\ (spc[s] # "ready" /\ spc'[s] = "ready") =>
                   bound = Unbounded \/ SharedSize(Q) < bound
       /\ \A r \in RecvIds :
             /\ (RecvRepoll(r) /\ Size(Q, r) = 0) =>
                   /\ rpc'[r] = "gap" /\ recvd' = recvd /\ QPost = Q
             /\ (RecvRegister(r) /\ live_senders > 0) =>
                   /\ rpc'[r] = "waiting" /\ r \in receivers'
                   /\ recvd' = recvd /\ QPost = Q
             /\ (rpc[r] = "gap" /\ rpc'[r] = "idle") => live_senders = 0]_vars

\* A Sender and a Receiver both woken with nothing to do: the backlog of the
\* Receiver is empty with a Sender live, the channel is at its bound.
C37_Witness ==
    /\ bound # Unbounded /\ SharedSize(Q) >= bound
    /\ \E s \in SenderIds : spc[s] = "waiting" /\ swoken[s]
    /\ \E r \in RecvIds :
          rpc[r] = "waiting" /\ rwoken[r] /\ Size(Q, r) = 0 /\ live_senders > 0

\* C38: send() does not fail for want of a Receiver.  With every Receiver
\* released, each step of a send() runs without fault and the send() that
\* pushes completes; no Receiver is ever handed a value that was sent before it
\* was subscribed, so a value sent to no Receiver is delivered to none.
C38_SendWithoutReceiver ==
    /\ [][\A s \in SenderIds :
             ((SendStart(s) \/ SendRepoll(s) \/ SendPush(s))
                 /\ \A r \in RecvIds : hs[r].state \in {"free", "dead"}) =>
                 /\ fault' = "none"
                 /\ SendPush(s) => (spc'[s] = "idle" /\ npush' = npush + 1)]_vars
    /\ [](\A r \in RecvIds :
             \A i \in 1 .. Len(recvd[r]) : recvd[r][i] > start[r])

\* C39: once the ThreadPool handle has been dropped without stop() and the
\* scheduler is at job_receiver.recv() on the closed, drained job channel, the
\* scheduler task eventually ends.
C39_SchedulerEndsOnClosedChannel ==
    (/\ pstop = "dropped" /\ job_channel = <<>>
     /\ sched.pc \in {"recv_job", "wait_job"}) ~> SchedGone

====
